---- MODULE Spec2Model ----
(***************************************************************************)
(* Career advisor: Competency / Profile / Career (models.py), the          *)
(* CareerAdvisor registry and scoring engine (advisor.py) and the          *)
(* interactive shell (cli.py).                                             *)
(*                                                                         *)
(* Representation.                                                         *)
(*  - A Python float score is an integer number of 1/Unit points, so 7.5   *)
(*    is 75000 and 8.9999 is 89999.  A match percentage is an integer      *)
(*    number of hundredths of a percent (round(x, 2)), so 34.48 is 3448.   *)
(*  - A Python dict is insertion ordered: it is a sequence of              *)
(*    [key, value] entries; assigning to an existing key keeps its place.  *)
(*  - str.lower() is the table Lower over the names the model draws from.  *)
(***************************************************************************)
EXTENDS Integers, Sequences, FiniteSets, TLC

Unit == 10000

Min(a, b) == IF a < b THEN a ELSE b

(* Nearest integer to n / d (d > 0), ties to the even neighbour: what      *)
(* round() and the .1f format do with a value that sits exactly half way.  *)
RoundHalfEven(n, d) ==
    LET q == n \div d
        r == n % d
    IN  IF 2 * r < d THEN q
        ELSE IF 2 * r > d THEN q + 1
        ELSE IF q % 2 = 0 THEN q ELSE q + 1

(* str.lower() *)
Lower(s) ==
    CASE s = "Ana" -> "ana"
      [] s = "ANA" -> "ana"
      [] s = "Bo" -> "bo"
      [] s = "Marina" -> "marina"
      [] s = "Python" -> "python"
      [] s = "PYTHON" -> "python"
      [] s = "SQL" -> "sql"
      [] s = "Estatistica" -> "estatistica"
      [] s = "Estatistica Aplicada" -> "estatistica aplicada"
      [] s = "Comunicacao" -> "comunicacao"
      [] s = "Tecnica" -> "tecnica"
      [] s = "TECNICA" -> "tecnica"
      [] s = "Comportamental" -> "comportamental"
      [] s = "Technical" -> "technical"
      [] s = "Dev" -> "dev"
      [] s = "DEV" -> "dev"
      [] s = "Ops" -> "ops"
      [] s = "QA" -> "qa"
      [] s = "Cientista de Dados" -> "cientista de dados"
      [] s = "Arquiteto de Soluções em Nuvem" -> "arquiteto de soluções em nuvem"
      [] s = "Especialista em Cibersegurança" -> "especialista em cibersegurança"
      [] s = "Engenheiro de Machine Learning" -> "engenheiro de machine learning"
      [] s = "Engenheiro de Dados" -> "engenheiro de dados"
      [] s = "Analista de Business Intelligence" -> "analista de business intelligence"
      [] s = "Engenheiro DevOps" -> "engenheiro devops"
      [] s = "Engenheiro de Software Backend" -> "engenheiro de software backend"
      [] s = "Desenvolvedor Full Stack" -> "desenvolvedor full stack"
      [] s = "Engenheiro Mobile" -> "engenheiro mobile"
      [] s = "Product Manager Digital" -> "product manager digital"
      [] s = "Scrum Master" -> "scrum master"
      [] s = "UX Researcher" -> "ux researcher"
      [] s = "UI Designer" -> "ui designer"
      [] s = "Analista de Suporte N2" -> "analista de suporte n2"
      [] s = "Engenheiro de Redes" -> "engenheiro de redes"
      [] s = "Especialista em Observabilidade" -> "especialista em observabilidade"
      [] s = "Arquiteto de Microserviços" -> "arquiteto de microserviços"
      [] s = "Engenheiro de IoT" -> "engenheiro de iot"
      [] s = "Cientista de Visão Computacional" -> "cientista de visão computacional"
      [] s = "Especialista em Processamento de Linguagem Natural" -> "especialista em processamento de linguagem natural"
      [] s = "Consultor de Transformação Digital" -> "consultor de transformação digital"
      [] s = "Analista de Governança de Dados" -> "analista de governança de dados"
      [] s = "Especialista em Automação Industrial" -> "especialista em automação industrial"
      [] s = "Engenheiro de Segurança Aplicada" -> "engenheiro de segurança aplicada"
      [] s = "Agile Coach" -> "agile coach"
      [] s = "Engenheiro de Realidade Aumentada" -> "engenheiro de realidade aumentada"
      [] s = "Especialista em Power Platform" -> "especialista em power platform"
      [] OTHER -> s

(***************************************************************************)
(* dict                                                                    *)
(***************************************************************************)
DictHas(d, k) == \E i \in 1..Len(d) : d[i].key = k

DictIndex(d, k) == CHOOSE i \in 1..Len(d) : d[i].key = k

DictGet(d, k) == d[DictIndex(d, k)].value

(* list(...): the elements computed once, when the list is built *)
List(s) == s \o <<>>

DictKeys(d) == List([i \in 1..Len(d) |-> d[i].key])

DictValues(d) == List([i \in 1..Len(d) |-> d[i].value])

(* d[k] = v *)
DictSet(d, k, v) ==
    IF DictHas(d, k)
    THEN [d EXCEPT ![DictIndex(d, k)].value = v]
    ELSE Append(d, [key |-> k, value |-> v])

(* d.setdefault(k, v): the dict afterwards *)
DictSetDefault(d, k, v) ==
    IF DictHas(d, k) THEN d ELSE Append(d, [key |-> k, value |-> v])

(***************************************************************************)
(* models.py                                                               *)
(***************************************************************************)
NoCompetency == [name |-> "", kind |-> "", score |-> 0]

KindError == "Tipo de competência deve ser 'tecnica' ou 'comportamental'."

ScoreError == "A nota da competência deve estar entre 0 e 10."

(* Mutant of Competency: the two ends of the score range are rejected. *)
CompetencyOpenRange(name, kind, score) ==
    LET k == Lower(kind)
    IN  IF k \notin {"tecnica", "comportamental"}
        THEN [raised |-> KindError, value |-> NoCompetency]
        ELSE IF ~(0 < score /\ score < 10 * Unit)
        THEN [raised |-> ScoreError, value |-> NoCompetency]
        ELSE [raised |-> "", value |-> [name |-> name, kind |-> k, score |-> score]]

(* Competency(name, kind, score): __post_init__ lowercases the kind, then  *)
(* raises ValueError for a bad kind, then for a bad score.  raised = ""    *)
(* means the constructor returned value.                                   *)
Competency(name, kind, score) ==
    LET k == Lower(kind)
    IN  IF k \notin {"tecnica", "comportamental"}
        THEN [raised |-> KindError, value |-> NoCompetency]
        ELSE IF ~(0 <= score /\ score <= 10 * Unit)
        THEN [raised |-> ScoreError, value |-> NoCompetency]
        ELSE [raised |-> "", value |-> [name |-> name, kind |-> k, score |-> score]]

Profile(name) ==
    [name |-> name, technical_skills |-> <<>>, behavioral_skills |-> <<>>]

(* Mutant of add_competency: the competency is filed under its name as    *)
(* given, not lowercased.                                                  *)
add_competency_key_as_given(profile, competency) ==
    IF competency.kind = "tecnica"
    THEN [profile EXCEPT !.technical_skills =
              DictSet(@, competency.name, competency)]
    ELSE [profile EXCEPT !.behavioral_skills =
              DictSet(@, competency.name, competency)]

(* Mutant of add_competency: every competency is filed in the technical    *)
(* bucket.                                                                 *)
add_competency_one_bucket(profile, competency) ==
    [profile EXCEPT !.technical_skills =
         DictSet(@, Lower(competency.name), competency)]

(* bucket[competency.name.lower()] = competency, the bucket chosen by kind *)
add_competency(profile, competency) ==
    IF competency.kind = "tecnica"
    THEN [profile EXCEPT !.technical_skills =
              DictSet(@, Lower(competency.name), competency)]
    ELSE [profile EXCEPT !.behavioral_skills =
              DictSet(@, Lower(competency.name), competency)]

list_competencies(profile) ==
    DictValues(profile.technical_skills) \o DictValues(profile.behavioral_skills)

get_score(profile, name) ==
    LET key == Lower(name)
    IN  IF DictHas(profile.technical_skills, key)
        THEN DictGet(profile.technical_skills, key).score
        ELSE IF DictHas(profile.behavioral_skills, key)
        THEN DictGet(profile.behavioral_skills, key).score
        ELSE 0

Career(name, required_competencies) ==
    [name |-> name, required_competencies |-> required_competencies]

(* the (comp_name, kind, score) triples, in the requirements' order *)
required_items(career) ==
    LET rc == career.required_competencies
    IN  List([i \in 1..Len(rc) |-> <<rc[i].key, rc[i].value[1], rc[i].value[2]>>])

(***************************************************************************)
(* advisor.py: the scoring engine                                          *)
(***************************************************************************)
Recommendation(profile, career, match_percentage, missing_competencies) ==
    [profile |-> profile, career |-> career,
     match_percentage |-> match_percentage,
     missing_competencies |-> missing_competencies]

(* Mutant of RequirementLoop: achieved += current_score, the credit not    *)
(* capped at the requirement.                                              *)
RECURSIVE RequirementLoopUncapped(_, _, _, _)
RequirementLoopUncapped(profile, items, i, acc) ==
    IF i > Len(items) THEN acc
    ELSE LET comp_name == items[i][1]
             required_score == items[i][3]
             current_score == get_score(profile, comp_name)
         IN  RequirementLoopUncapped(profile, items, i + 1,
                 [total |-> acc.total + required_score,
                  achieved |-> acc.achieved + current_score,
                  missing |-> IF current_score < required_score
                              THEN DictSet(acc.missing, comp_name,
                                           required_score - current_score)
                              ELSE acc.missing])

(* Mutant of RequirementLoop: a requirement is recorded as missing when    *)
(* the score is at or below it, not strictly below.                        *)
RECURSIVE RequirementLoopMissingAtOrBelow(_, _, _, _)
RequirementLoopMissingAtOrBelow(profile, items, i, acc) ==
    IF i > Len(items) THEN acc
    ELSE LET comp_name == items[i][1]
             required_score == items[i][3]
             current_score == get_score(profile, comp_name)
         IN  RequirementLoopMissingAtOrBelow(profile, items, i + 1,
                 [total |-> acc.total + required_score,
                  achieved |-> acc.achieved + Min(current_score, required_score),
                  missing |-> IF current_score <= required_score
                              THEN DictSet(acc.missing, comp_name,
                                           required_score - current_score)
                              ELSE acc.missing])

(* The inner for-loop of analyze_profile from item i on; acc carries       *)
(* total, achieved and missing.                                            *)
RECURSIVE RequirementLoop(_, _, _, _)
RequirementLoop(profile, items, i, acc) ==
    IF i > Len(items) THEN acc
    ELSE LET comp_name == items[i][1]
             required_score == items[i][3]
             current_score == get_score(profile, comp_name)
         IN  RequirementLoop(profile, items, i + 1,
                 [total |-> acc.total + required_score,
                  achieved |-> acc.achieved + Min(current_score, required_score),
                  missing |-> IF current_score < required_score
                              THEN DictSet(acc.missing, comp_name,
                                           required_score - current_score)
                              ELSE acc.missing])

(* Mutant of MatchPercentage: the share still missing instead of the share *)
(* achieved.                                                               *)
MatchPercentageOfGap(achieved, total) ==
    IF total # 0 THEN RoundHalfEven((total - achieved) * 100 * 100, total) ELSE 0

(* round((achieved / total * 100) if total else 0, 2), in hundredths *)
MatchPercentage(achieved, total) ==
    IF total # 0 THEN RoundHalfEven(achieved * 100 * 100, total) ELSE 0

(* The body of the outer for-loop: one Recommendation for one career. *)
ScoreCareer(profile, career) ==
    LET acc == RequirementLoop(profile, required_items(career), 1,
                               [total |-> 0, achieved |-> 0, missing |-> <<>>])
    IN  Recommendation(profile, career,
                       MatchPercentage(acc.achieved, acc.total), acc.missing)

(* Mutant of SortedPosition: sorted ascending and then reversed, which     *)
(* puts equal keys in the reverse of their original order.                 *)
SortedPositionTiesReversed(results, i) ==
    Cardinality({j \in 1..Len(results) :
                   \/ results[j].match_percentage > results[i].match_percentage
                   \/ /\ results[j].match_percentage = results[i].match_percentage
                      /\ j > i}) + 1

(* list.sort(key=match_percentage, reverse=True) is stable: results[i]     *)
(* ends up after every element with a larger key and after the elements    *)
(* with an equal key that stood before it.                                 *)
SortedPosition(results, i) ==
    Cardinality({j \in 1..Len(results) :
                   \/ results[j].match_percentage > results[i].match_percentage
                   \/ /\ results[j].match_percentage = results[i].match_percentage
                      /\ j < i}) + 1

SortDescending(results) ==
    LET position == List([i \in 1..Len(results) |-> SortedPosition(results, i)])
    IN  List([p \in 1..Len(results) |->
                 results[CHOOSE i \in 1..Len(results) : position[i] = p]])

(* Mutant of analyze_profile: the result is the one computed when the      *)
(* profile was created, before it held any competency.                     *)
analyze_profile_as_created(cars, profile) ==
    LET cs == DictValues(cars)
        results == List([i \in 1..Len(cs) |->
                            ScoreCareer(Profile(profile.name), cs[i])])
    IN  SortDescending(results)

(* Mutant of analyze_profile: careers with no match at all are left out. *)
analyze_profile_matching_only(cars, profile) ==
    LET cs == DictValues(cars)
        results == List([i \in 1..Len(cs) |-> ScoreCareer(profile, cs[i])])
        Matches(rec) == rec.match_percentage > 0
    IN  SortDescending(SelectSeq(results, Matches))

analyze_profile(cars, profile) ==
    LET cs == DictValues(cars)
        results == List([i \in 1..Len(cs) |-> ScoreCareer(profile, cs[i])])
    IN  SortDescending(results)

(* A suggestion string is its template and the three values formatted     *)
(* into it; the "already satisfied" string has no values.                  *)
Advice(comp_name, missing_value, career_name) ==
    [text |-> "Aumentar {} em {:.1f} pontos para a carreira de {}.",
     comp_name |-> comp_name, missing_value |-> missing_value,
     career |-> career_name]

Satisfied ==
    [text |-> "Perfil já atende aos requisitos dessa carreira!",
     comp_name |-> "", missing_value |-> 0, career |-> ""]

(* f"{missing_value:.1f}": the value in tenths *)
Format1f(missing_value) == RoundHalfEven(missing_value * 10, Unit)

(* Mutant of suggest_improvements: no message when nothing is missing. *)
suggest_improvements_no_default(recommendation) ==
    LET m == recommendation.missing_competencies
    IN  [i \in 1..Len(m) |->
            Advice(m[i].key, Format1f(m[i].value), recommendation.career.name)]

suggest_improvements(recommendation) ==
    LET m == recommendation.missing_competencies
        suggestions == [i \in 1..Len(m) |->
                          Advice(m[i].key, Format1f(m[i].value),
                                 recommendation.career.name)]
    IN  IF Len(suggestions) = 0 THEN <<Satisfied>> ELSE suggestions

(***************************************************************************)
(* advisor.py: the registry                                                *)
(***************************************************************************)
None == [none |-> TRUE]

(* Mutant of add_profile: a name already registered keeps its profile. *)
add_profile_if_absent(profs, profile) ==
    DictSetDefault(profs, Lower(profile.name), profile)

add_profile(profs, profile) == DictSet(profs, Lower(profile.name), profile)

get_profile(profs, name) ==
    IF DictHas(profs, Lower(name)) THEN DictGet(profs, Lower(name)) ELSE None

add_career(cars, career) == DictSet(cars, Lower(career.name), career)

list_careers(cars) == DictValues(cars)

(* setdefault looks the profile up or registers a new one; add_competency  *)
(* then mutates that registered object, which is also what is returned.    *)
add_competency_to_profile(profs, profile_name, competency) ==
    LET key == Lower(profile_name)
        d == DictSetDefault(profs, key, Profile(profile_name))
        profile == add_competency(DictGet(d, key), competency)
    IN  [profiles |-> DictSet(d, key, profile), returned |-> profile]

(***************************************************************************)
(* advisor.py: build_default_advisor                                       *)
(***************************************************************************)
technical_skills ==
    << [key |-> "python", value |-> <<"tecnica", 9 * Unit>>],
       [key |-> "estatistica aplicada", value |-> <<"tecnica", 8 * Unit>>],
       [key |-> "machine learning", value |-> <<"tecnica", 9 * Unit>>],
       [key |-> "deep learning", value |-> <<"tecnica", 8 * Unit>>],
       [key |-> "sql", value |-> <<"tecnica", 8 * Unit>>],
       [key |-> "bancos nosql", value |-> <<"tecnica", 7 * Unit>>],
       [key |-> "data visualization", value |-> <<"tecnica", 7 * Unit>>],
       [key |-> "power bi", value |-> <<"tecnica", 6 * Unit>>],
       [key |-> "spark", value |-> <<"tecnica", 7 * Unit>>],
       [key |-> "hadoop", value |-> <<"tecnica", 6 * Unit>>],
       [key |-> "big data architecture", value |-> <<"tecnica", 8 * Unit>>],
       [key |-> "cloud architecture", value |-> <<"tecnica", 9 * Unit>>],
       [key |-> "kubernetes", value |-> <<"tecnica", 8 * Unit>>],
       [key |-> "docker", value |-> <<"tecnica", 8 * Unit>>],
       [key |-> "linux administration", value |-> <<"tecnica", 7 * Unit>>],
       [key |-> "redes corporativas", value |-> <<"tecnica", 7 * Unit>>],
       [key |-> "seguranca redes", value |-> <<"tecnica", 9 * Unit>>],
       [key |-> "criptografia aplicada", value |-> <<"tecnica", 8 * Unit>>],
       [key |-> "automacao testes", value |-> <<"tecnica", 7 * Unit>>],
       [key |-> "desenvolvimento backend", value |-> <<"tecnica", 8 * Unit>>],
       [key |-> "desenvolvimento frontend", value |-> <<"tecnica", 7 * Unit>>],
       [key |-> "desenvolvimento mobile", value |-> <<"tecnica", 7 * Unit>>],
       [key |-> "devops", value |-> <<"tecnica", 9 * Unit>>],
       [key |-> "ci cd", value |-> <<"tecnica", 8 * Unit>>],
       [key |-> "infraestrutura como codigo", value |-> <<"tecnica", 8 * Unit>>],
       [key |-> "terraform", value |-> <<"tecnica", 7 * Unit>>],
       [key |-> "ansible", value |-> <<"tecnica", 6 * Unit>>],
       [key |-> "monitoramento observabilidade", value |-> <<"tecnica", 7 * Unit>>],
       [key |-> "testes automatizados api", value |-> <<"tecnica", 7 * Unit>>],
       [key |-> "sistemas embarcados", value |-> <<"tecnica", 6 * Unit>>],
       [key |-> "robotica", value |-> <<"tecnica", 6 * Unit>>],
       [key |-> "iot", value |-> <<"tecnica", 7 * Unit>>],
       [key |-> "analise de logs", value |-> <<"tecnica", 6 * Unit>>],
       [key |-> "programacao funcional", value |-> <<"tecnica", 7 * Unit>>],
       [key |-> "java", value |-> <<"tecnica", 7 * Unit>>],
       [key |-> "csharp", value |-> <<"tecnica", 7 * Unit>>],
       [key |-> "go", value |-> <<"tecnica", 6 * Unit>>],
       [key |-> "rust", value |-> <<"tecnica", 6 * Unit>>],
       [key |-> "nodejs", value |-> <<"tecnica", 7 * Unit>>],
       [key |-> "react", value |-> <<"tecnica", 7 * Unit>>],
       [key |-> "flutter", value |-> <<"tecnica", 6 * Unit>>],
       [key |-> "swift", value |-> <<"tecnica", 6 * Unit>>],
       [key |-> "power platform", value |-> <<"tecnica", 6 * Unit>>],
       [key |-> "integracao sistemas", value |-> <<"tecnica", 7 * Unit>>],
       [key |-> "arquitetura microservicos", value |-> <<"tecnica", 8 * Unit>>],
       [key |-> "modelagem dados", value |-> <<"tecnica", 8 * Unit>>],
       [key |-> "governanca dados", value |-> <<"tecnica", 7 * Unit>>],
       [key |-> "analise preditiva", value |-> <<"tecnica", 8 * Unit>>],
       [key |-> "processamento linguagem natural", value |-> <<"tecnica", 8 * Unit>>],
       [key |-> "visao computacional", value |-> <<"tecnica", 8 * Unit>>],
       [key |-> "realidade aumentada", value |-> <<"tecnica", 6 * Unit>>],
       [key |-> "simulacao digital", value |-> <<"tecnica", 6 * Unit>>] >>

behavioral_skills ==
    << [key |-> "comunicacao", value |-> <<"comportamental", 8 * Unit>>],
       [key |-> "storytelling", value |-> <<"comportamental", 7 * Unit>>],
       [key |-> "pensamento critico", value |-> <<"comportamental", 8 * Unit>>],
       [key |-> "resolucao de problemas", value |-> <<"comportamental", 9 * Unit>>],
       [key |-> "colaboracao", value |-> <<"comportamental", 8 * Unit>>],
       [key |-> "lideranca", value |-> <<"comportamental", 8 * Unit>>],
       [key |-> "negociacao", value |-> <<"comportamental", 7 * Unit>>],
       [key |-> "empatia", value |-> <<"comportamental", 8 * Unit>>],
       [key |-> "adaptabilidade", value |-> <<"comportamental", 8 * Unit>>],
       [key |-> "criatividade", value |-> <<"comportamental", 8 * Unit>>],
       [key |-> "proatividade", value |-> <<"comportamental", 8 * Unit>>],
       [key |-> "gestao do tempo", value |-> <<"comportamental", 7 * Unit>>],
       [key |-> "gestao de conflitos", value |-> <<"comportamental", 7 * Unit>>],
       [key |-> "tomada de decisao", value |-> <<"comportamental", 8 * Unit>>],
       [key |-> "foco no cliente", value |-> <<"comportamental", 8 * Unit>>],
       [key |-> "orientacao a resultados", value |-> <<"comportamental", 8 * Unit>>],
       [key |-> "organizacao", value |-> <<"comportamental", 7 * Unit>>],
       [key |-> "detalhismo", value |-> <<"comportamental", 7 * Unit>>],
       [key |-> "resiliencia", value |-> <<"comportamental", 8 * Unit>>],
       [key |-> "inteligencia emocional", value |-> <<"comportamental", 9 * Unit>>],
       [key |-> "visao estrategica", value |-> <<"comportamental", 8 * Unit>>],
       [key |-> "mentoria", value |-> <<"comportamental", 7 * Unit>>],
       [key |-> "aprendizado continuo", value |-> <<"comportamental", 8 * Unit>>],
       [key |-> "curiosidade", value |-> <<"comportamental", 7 * Unit>>],
       [key |-> "networking", value |-> <<"comportamental", 6 * Unit>>],
       [key |-> "responsabilidade", value |-> <<"comportamental", 8 * Unit>>],
       [key |-> "confiabilidade", value |-> <<"comportamental", 8 * Unit>>],
       [key |-> "influencia", value |-> <<"comportamental", 7 * Unit>>],
       [key |-> "coachabilidade", value |-> <<"comportamental", 7 * Unit>>],
       [key |-> "etica profissional", value |-> <<"comportamental", 9 * Unit>>],
       [key |-> "diplomacia", value |-> <<"comportamental", 7 * Unit>>],
       [key |-> "paciencia", value |-> <<"comportamental", 7 * Unit>>],
       [key |-> "autocontrole", value |-> <<"comportamental", 8 * Unit>>],
       [key |-> "pensamento sistemico", value |-> <<"comportamental", 8 * Unit>>],
       [key |-> "planejamento", value |-> <<"comportamental", 7 * Unit>>],
       [key |-> "capacidade analitica", value |-> <<"comportamental", 8 * Unit>>],
       [key |-> "iniciativa", value |-> <<"comportamental", 8 * Unit>>],
       [key |-> "senso de urgencia", value |-> <<"comportamental", 7 * Unit>>],
       [key |-> "colaboracao remota", value |-> <<"comportamental", 7 * Unit>>],
       [key |-> "abertura a feedbacks", value |-> <<"comportamental", 8 * Unit>>],
       [key |-> "comunicacao escrita", value |-> <<"comportamental", 7 * Unit>>],
       [key |-> "comunicacao visual", value |-> <<"comportamental", 6 * Unit>>],
       [key |-> "apresentacao", value |-> <<"comportamental", 7 * Unit>>],
       [key |-> "facilitacao de workshops", value |-> <<"comportamental", 7 * Unit>>],
       [key |-> "gestao de stakeholders", value |-> <<"comportamental", 8 * Unit>>],
       [key |-> "mediacao", value |-> <<"comportamental", 6 * Unit>>],
       [key |-> "escuta ativa", value |-> <<"comportamental", 8 * Unit>>],
       [key |-> "motivacao de equipes", value |-> <<"comportamental", 8 * Unit>>],
       [key |-> "foco na qualidade", value |-> <<"comportamental", 8 * Unit>>],
       [key |-> "orientacao a dados", value |-> <<"comportamental", 7 * Unit>>],
       [key |-> "gestao de riscos", value |-> <<"comportamental", 7 * Unit>>],
       [key |-> "pensamento empreendedor", value |-> <<"comportamental", 7 * Unit>>] >>

careers_data ==
    << <<"Cientista de Dados",
         <<"python", "estatistica aplicada", "machine learning",
           "data visualization", "pensamento critico", "comunicacao",
           "orientacao a dados">> >>,
       <<"Arquiteto de Soluções em Nuvem",
         <<"cloud architecture", "arquitetura microservicos", "kubernetes",
           "infraestrutura como codigo", "lideranca", "negociacao",
           "visao estrategica">> >>,
       <<"Especialista em Cibersegurança",
         <<"seguranca redes", "criptografia aplicada",
           "linux administration", "resolucao de problemas", "detalhismo",
           "etica profissional">> >>,
       <<"Engenheiro de Machine Learning",
         <<"python", "machine learning", "deep learning",
           "analise preditiva", "processamento linguagem natural",
           "aprendizado continuo", "orientacao a resultados">> >>,
       <<"Engenheiro de Dados",
         <<"sql", "modelagem dados", "hadoop", "spark", "governanca dados",
           "comunicacao", "planejamento">> >>,
       <<"Analista de Business Intelligence",
         <<"power bi", "data visualization", "sql", "storytelling",
           "comunicacao", "foco no cliente">> >>,
       <<"Engenheiro DevOps",
         <<"devops", "ci cd", "kubernetes", "docker",
           "monitoramento observabilidade", "colaboracao", "proatividade",
           "gestao de riscos">> >>,
       <<"Engenheiro de Software Backend",
         <<"desenvolvimento backend", "java", "modelagem dados",
           "testes automatizados api", "resolucao de problemas",
           "comunicacao escrita">> >>,
       <<"Desenvolvedor Full Stack",
         <<"desenvolvimento frontend", "desenvolvimento backend", "react",
           "nodejs", "comunicacao", "adaptabilidade", "organizacao">> >>,
       <<"Engenheiro Mobile",
         <<"desenvolvimento mobile", "flutter", "swift", "react",
           "criatividade", "senso de urgencia", "comunicacao visual">> >>,
       <<"Product Manager Digital",
         <<"data visualization", "visao estrategica",
           "gestao de stakeholders", "comunicacao", "negociacao",
           "orientacao a resultados", "planejamento">> >>,
       <<"Scrum Master",
         <<"integracao sistemas", "facilitacao de workshops", "colaboracao",
           "mediacao", "gestao do tempo", "adaptabilidade",
           "abertura a feedbacks">> >>,
       <<"UX Researcher",
         <<"data visualization", "empatia", "escuta ativa", "storytelling",
           "curiosidade", "pensamento critico">> >>,
       <<"UI Designer",
         <<"desenvolvimento frontend", "comunicacao visual", "criatividade",
           "detalhismo", "colaboracao", "orientacao a resultados">> >>,
       <<"Analista de Suporte N2",
         <<"redes corporativas", "linux administration", "analise de logs",
           "comunicacao", "paciencia", "responsabilidade">> >>,
       <<"Engenheiro de Redes",
         <<"redes corporativas", "seguranca redes",
           "monitoramento observabilidade", "infraestrutura como codigo",
           "comunicacao", "gestao de riscos">> >>,
       <<"Especialista em Observabilidade",
         <<"monitoramento observabilidade", "analise de logs",
           "automacao testes", "comunicacao escrita", "pensamento sistemico",
           "orientacao a dados">> >>,
       <<"Arquiteto de Microserviços",
         <<"arquitetura microservicos", "desenvolvimento backend", "nodejs",
           "kubernetes", "lideranca", "negociacao", "planejamento">> >>,
       <<"Engenheiro de IoT",
         <<"iot", "redes corporativas", "sistemas embarcados", "robotica",
           "resolucao de problemas", "criatividade", "curiosidade">> >>,
       <<"Cientista de Visão Computacional",
         <<"visao computacional", "python", "deep learning",
           "analise preditiva", "comunicacao", "pensamento critico">> >>,
       <<"Especialista em Processamento de Linguagem Natural",
         <<"processamento linguagem natural", "python", "machine learning",
           "storytelling", "comunicacao", "orientacao a dados",
           "criatividade">> >>,
       <<"Consultor de Transformação Digital",
         <<"cloud architecture", "integracao sistemas", "power platform",
           "visao estrategica", "comunicacao", "orientacao a resultados",
           "gestao de stakeholders">> >>,
       <<"Analista de Governança de Dados",
         <<"governanca dados", "modelagem dados", "data visualization",
           "comunicacao", "etica profissional", "orientacao a dados",
           "planejamento">> >>,
       <<"Especialista em Automação Industrial",
         <<"automacao testes", "sistemas embarcados", "robotica", "iot",
           "proatividade", "responsabilidade", "detalhismo">> >>,
       <<"Engenheiro de Segurança Aplicada",
         <<"seguranca redes", "criptografia aplicada",
           "desenvolvimento backend", "testes automatizados api",
           "resolucao de problemas", "orientacao a resultados",
           "etica profissional">> >>,
       <<"Agile Coach",
         <<"devops", "facilitacao de workshops", "lideranca", "mentoria",
           "aprendizado continuo", "empatia", "planejamento",
           "abertura a feedbacks">> >>,
       <<"Engenheiro de Realidade Aumentada",
         <<"realidade aumentada", "visao computacional",
           "desenvolvimento mobile", "criatividade", "comunicacao visual",
           "resolucao de problemas">> >>,
       <<"Especialista em Power Platform",
         <<"power platform", "integracao sistemas",
           "desenvolvimento backend", "comunicacao", "foco no cliente",
           "orientacao a resultados", "planejamento">> >> >>

(* The dict a loop of assignments d[key] = value leaves, items being the   *)
(* assignments in order: a key stands where it was first assigned and      *)
(* holds what was assigned last.                                           *)
DictFromItems(items) ==
    LET First(i) == \A j \in 1..(i - 1) : items[j].key # items[i].key
        firsts == SelectSeq([i \in 1..Len(items) |-> i], First)
        Last(i) == CHOOSE j \in 1..Len(items) :
                       /\ items[j].key = items[i].key
                       /\ \A k \in (j + 1)..Len(items) : items[k].key # items[i].key
    IN  List([n \in 1..Len(firsts) |->
                 [key |-> items[firsts[n]].key,
                  value |-> items[Last(firsts[n])].value]])

(* {**technical_skills, **behavioral_skills} *)
skills_catalog == DictFromItems(technical_skills \o behavioral_skills)

(* {skill: skills_catalog[skill] for skill in competencies} *)
RequiredFromCatalog(competencies) ==
    DictFromItems(List([i \in 1..Len(competencies) |->
                           [key |-> competencies[i],
                            value |-> DictGet(skills_catalog, competencies[i])]]))

(* the careers of the advisor build_default_advisor returns: add_career    *)
(* for each entry of careers_data                                          *)
build_default_advisor ==
    DictFromItems(List([i \in 1..Len(careers_data) |->
                           [key |-> Lower(careers_data[i][1]),
                            value |-> Career(careers_data[i][1],
                                             RequiredFromCatalog(careers_data[i][2]))]]))

(***************************************************************************)
(* State                                                                   *)
(*   profiles, careers  the CareerAdvisor's two dicts                      *)
(*   pc                 where the program is: "library" (an API client),   *)
(*                      "start", "menu", "exit" (the shell), "demo"        *)
(*   call, ret          the most recent call and what it returned/printed  *)
(*   before             history: profiles as it was when that call began   *)
(*   inserted           history: the career names as first given to        *)
(*                      add_career, one per key, in call order             *)
(*   written            history: per profile object and competency key,    *)
(*                      the score of the last competency added             *)
(***************************************************************************)
VARIABLES profiles, careers, pc, call, ret, before, inserted, written

vars == <<profiles, careers, pc, call, ret, before, inserted, written>>

Call(op, args) == [op |-> op, args |-> args]

InsertedKeys == {Lower(inserted[i]) : i \in 1..Len(inserted)}

NoteCareer(name) ==
    IF Lower(name) \in InsertedKeys THEN inserted ELSE Append(inserted, name)

NoteWrite(pkey, competency) ==
    {w \in written : ~(w.profile = pkey /\ w.key = Lower(competency.name))}
        \cup {[profile |-> pkey, key |-> Lower(competency.name),
               score |-> competency.score]}

NoteNewProfile(pkey) == {w \in written : w.profile # pkey}

(***************************************************************************)
(* API calls                                                               *)
(***************************************************************************)
(* Competency(name, kind, score) on its own *)
NewCompetencyStep(name, kind, score) ==
    /\ before' = profiles
    /\ call' = Call("Competency", <<name, kind, score>>)
    /\ ret' = Competency(name, kind, score)
    /\ UNCHANGED <<profiles, careers, pc, inserted, written>>

(* advisor.add_profile(Profile(name)) *)
AddProfileStep(name) ==
    /\ profiles' = add_profile(profiles, Profile(name))
    /\ written' = NoteNewProfile(Lower(name))
    /\ before' = profiles
    /\ call' = Call("add_profile", <<name>>)
    /\ ret' = None
    /\ UNCHANGED <<careers, pc, inserted>>

(* advisor.add_career(career) *)
AddCareerStep(career) ==
    /\ careers' = add_career(careers, career)
    /\ inserted' = NoteCareer(career.name)
    /\ before' = profiles
    /\ call' = Call("add_career", <<career>>)
    /\ ret' = None
    /\ UNCHANGED <<profiles, pc, written>>

(* advisor.add_competency_to_profile(profile_name, Competency(...)); the   *)
(* call happens only if the constructor returned a Competency.             *)
AddCompetencyToProfileStep(profile_name, name, kind, score) ==
    LET c == Competency(name, kind, score)
        r == add_competency_to_profile(profiles, profile_name, c.value)
    IN  /\ c.raised = ""
        /\ profiles' = r.profiles
        /\ written' = NoteWrite(Lower(profile_name), c.value)
        /\ before' = profiles
        /\ call' = Call("add_competency_to_profile", <<profile_name, c.value>>)
        /\ ret' = r.returned
        /\ UNCHANGED <<careers, pc, inserted>>

(* advisor.get_profile(profile_name).add_competency(Competency(...)) *)
ProfileAddCompetencyStep(profile_name, name, kind, score) ==
    LET c == Competency(name, kind, score)
        key == Lower(profile_name)
    IN  /\ c.raised = ""
        /\ DictHas(profiles, key)
        /\ profiles' = DictSet(profiles, key,
                                add_competency(DictGet(profiles, key), c.value))
        /\ written' = NoteWrite(key, c.value)
        /\ before' = profiles
        /\ call' = Call("add_competency", <<profile_name, c.value>>)
        /\ ret' = None
        /\ UNCHANGED <<careers, pc, inserted>>

(* advisor.get_profile(profile_name).get_score(name) *)
GetScoreStep(profile_name, name) ==
    /\ DictHas(profiles, Lower(profile_name))
    /\ before' = profiles
    /\ call' = Call("get_score", <<profile_name, name>>)
    /\ ret' = get_score(get_profile(profiles, profile_name), name)
    /\ UNCHANGED <<profiles, careers, pc, inserted, written>>

(* advisor.analyze_profile(advisor.get_profile(profile_name)) *)
AnalyzeProfileStep(profile_name) ==
    /\ DictHas(profiles, Lower(profile_name))
    /\ before' = profiles
    /\ call' = Call("analyze_profile", <<profile_name>>)
    /\ ret' = analyze_profile(careers, get_profile(profiles, profile_name))
    /\ UNCHANGED <<profiles, careers, pc, inserted, written>>

(* advisor.suggest_improvements(rec), rec the i-th of the analysis just made *)
SuggestImprovementsStep(i) ==
    /\ call.op = "analyze_profile"
    /\ i \in 1..Len(ret)
    /\ before' = profiles
    /\ call' = Call("suggest_improvements", <<ret[i]>>)
    /\ ret' = suggest_improvements(ret[i])
    /\ UNCHANGED <<profiles, careers, pc, inserted, written>>

(***************************************************************************)
(* Spec: an API client of an advisor created empty, CareerAdvisor().       *)
(***************************************************************************)
ReqNone == <<>>

ReqPython == <<[key |-> "python", value |-> <<"tecnica", 9 * Unit>>]>>

ReqBoth ==
    <<[key |-> "sql", value |-> <<"comportamental", 8 * Unit>>],
      [key |-> "python", value |-> <<"tecnica", 9 * Unit>>]>>

CareerInputs ==
    {Career("Dev", ReqPython), Career("DEV", ReqBoth), Career("Ops", ReqPython),
     Career("QA", ReqNone), Career("QA", ReqBoth)}

ProfileNames == {"Ana"}

(* (name, kind, score) of the competencies the client adds *)
CompetencyInputs ==
    {<<"Python", "tecnica", 89999>>, <<"Python", "tecnica", 9 * Unit>>,
     <<"Python", "comportamental", 10 * Unit>>, <<"sql", "tecnica", 9 * Unit>>}

InitEmpty ==
    /\ profiles = <<>>
    /\ careers = <<>>
    /\ call = Call("CareerAdvisor", <<>>)
    /\ ret = None
    /\ before = <<>>
    /\ inserted = <<>>
    /\ written = {}

Init == InitEmpty /\ pc = "library"

AddProfile == \E name \in ProfileNames : AddProfileStep(name)

AddCareer == \E career \in CareerInputs : AddCareerStep(career)

AddCompetencyToProfile ==
    \E profile_name \in ProfileNames, c \in CompetencyInputs :
        AddCompetencyToProfileStep(profile_name, c[1], c[2], c[3])

AnalyzeProfile == \E profile_name \in ProfileNames : AnalyzeProfileStep(profile_name)

SuggestImprovements == \E i \in 1..Len(careers) : SuggestImprovementsStep(i)

Next ==
    \/ AddProfile
    \/ AddCareer
    \/ AddCompetencyToProfile
    \/ AnalyzeProfile
    \/ SuggestImprovements

Spec == Init /\ [][Next]_vars

(***************************************************************************)
(* SpecCompetency: the Competency constructor on its own.                  *)
(***************************************************************************)
ConstructorNames == {"Python", "sql", ""}

ConstructorKinds ==
    {"tecnica", "Tecnica", "TECNICA", "comportamental", "Comportamental",
     "technical", "Technical", "gerencial", ""}

ConstructorScores ==
    {0 - Unit, 0 - 1, 0, 1, 5 * Unit, 10 * Unit - 1, 10 * Unit, 10 * Unit + 1,
     11 * Unit}

NewCompetency ==
    \E name \in ConstructorNames, kind \in ConstructorKinds,
       score \in ConstructorScores :
        NewCompetencyStep(name, kind, score)

NextCompetency == NewCompetency

SpecCompetency == Init /\ [][NextCompetency]_vars

(***************************************************************************)
(* SpecProfile: an API client working on one profile of an advisor         *)
(* created empty: add_profile, add_competency_to_profile,                  *)
(* Profile.add_competency and Profile.get_score.                           *)
(***************************************************************************)
ProfileSpellings == {"Ana", "ANA"}

ProfileCompetencyInputs ==
    {<<"Python", "tecnica", 5 * Unit>>, <<"python", "tecnica", 8 * Unit>>,
     <<"Python", "comportamental", 5 * Unit>>,
     <<"python", "Comportamental", 8 * Unit>>,
     <<"sql", "TECNICA", 5 * Unit>>,
     <<"sql", "tecnica", 10 * Unit + 1>>, <<"sql", "gerencial", 5 * Unit>>}

QueryNames == {"Python", "PYTHON", "python", "sql", "SQL", "java"}

ProfileAddProfile == \E name \in ProfileSpellings : AddProfileStep(name)

ProfileAddCompetencyToProfile ==
    \E profile_name \in ProfileSpellings, c \in ProfileCompetencyInputs :
        AddCompetencyToProfileStep(profile_name, c[1], c[2], c[3])

ProfileAddCompetency ==
    \E profile_name \in ProfileSpellings, c \in ProfileCompetencyInputs :
        ProfileAddCompetencyStep(profile_name, c[1], c[2], c[3])

ProfileGetScore ==
    \E profile_name \in ProfileSpellings, name \in QueryNames :
        GetScoreStep(profile_name, name)

NextProfile ==
    \/ ProfileAddProfile
    \/ ProfileAddCompetencyToProfile
    \/ ProfileAddCompetency
    \/ ProfileGetScore

SpecProfile == Init /\ [][NextProfile]_vars

(***************************************************************************)
(* cli.py: the interactive shell.  main() builds the default advisor and   *)
(* either runs the demonstration or the menu loop; each menu option is one *)
(* handler, which reads its inputs, acts on the advisor and prints.        *)
(***************************************************************************)
(* str.strip() *)
Strip(s) ==
    CASE s = " Ana " -> "Ana"
      [] s = " Tecnica " -> "Tecnica"
      [] s = " 6 " -> "6"
      [] s = "  " -> ""
      [] OTHER -> s

(* float(score_raw): the number, or ValueError *)
ParseFloat(score_raw) ==
    CASE score_raw = "0" -> [raised |-> "", value |-> 0]
      [] score_raw = "6" -> [raised |-> "", value |-> 6 * Unit]
      [] score_raw = "6.5" -> [raised |-> "", value |-> 65000]
      [] score_raw = "7.5" -> [raised |-> "", value |-> 75000]
      [] score_raw = "10" -> [raised |-> "", value |-> 10 * Unit]
      [] score_raw = "10.0001" -> [raised |-> "", value |-> 10 * Unit + 1]
      [] score_raw = "-1" -> [raised |-> "", value |-> 0 - Unit]
      [] OTHER -> [raised |-> "could not convert string to float",
                   value |-> 0]

Printed(text, value) == [text |-> text, value |-> value]

(* CareerCLI._create_profile: the registry afterwards and what is printed *)
cli_create_profile(profs, name_input) ==
    LET name == Strip(name_input)
    IN  IF name = ""
        THEN [profiles |-> profs, printed |-> Printed("Nome inválido.", "")]
        ELSE [profiles |-> add_profile(profs, Profile(name)),
              printed |-> Printed("Perfil '{}' cadastrado com sucesso!", name)]

(* Mutant of cli_add_competency: the profile is looked up or registered    *)
(* before the competency is built.                                         *)
cli_add_competency_profile_first(profs, profile_input, name_input, kind_input, score_input) ==
    LET profile_name == Strip(profile_input)
        name == Strip(name_input)
        kind == Lower(Strip(kind_input))
        score == ParseFloat(Strip(score_input))
        c == Competency(name, kind, score.value)
        registered == DictSetDefault(profs, Lower(profile_name),
                                     Profile(profile_name))
    IN  IF profile_name = ""
        THEN [profiles |-> profs,
              printed |-> Printed("Informe um nome de perfil.", "")]
        ELSE IF score.raised # ""
        THEN [profiles |-> registered,
              printed |-> Printed("Erro ao cadastrar competência: {}",
                                  score.raised)]
        ELSE IF c.raised # ""
        THEN [profiles |-> registered,
              printed |-> Printed("Erro ao cadastrar competência: {}",
                                  c.raised)]
        ELSE LET r == add_competency_to_profile(profs, profile_name, c.value)
             IN  [profiles |-> r.profiles,
                  printed |-> Printed("Competência adicionada ao perfil '{}'.",
                                      r.returned.name)]

(* CareerCLI._add_competency: the registry afterwards and what is printed *)
cli_add_competency(profs, profile_input, name_input, kind_input, score_input) ==
    LET profile_name == Strip(profile_input)
        name == Strip(name_input)
        kind == Lower(Strip(kind_input))
        score == ParseFloat(Strip(score_input))
        c == Competency(name, kind, score.value)
    IN  IF profile_name = ""
        THEN [profiles |-> profs,
              printed |-> Printed("Informe um nome de perfil.", "")]
        ELSE IF score.raised # ""
        THEN [profiles |-> profs,
              printed |-> Printed("Erro ao cadastrar competência: {}",
                                  score.raised)]
        ELSE IF c.raised # ""
        THEN [profiles |-> profs,
              printed |-> Printed("Erro ao cadastrar competência: {}",
                                  c.raised)]
        ELSE LET r == add_competency_to_profile(profs, profile_name, c.value)
             IN  [profiles |-> r.profiles,
                  printed |-> Printed("Competência adicionada ao perfil '{}'.",
                                      r.returned.name)]

(* CareerCLI._print_recommendations: per recommendation the career name,   *)
(* the percentage with two decimals and the suggestion lines               *)
print_recommendations(recommendations) ==
    [i \in 1..Len(recommendations) |->
        [career |-> recommendations[i].career.name,
         compatibilidade |-> recommendations[i].match_percentage,
         suggestions |-> suggest_improvements(recommendations[i])]]

(* CareerCLI._analyze_profile: the recommendations computed and what is    *)
(* printed                                                                 *)
cli_analyze_profile(profs, cars, name_input) ==
    LET profile == get_profile(profs, Strip(name_input))
        recommendations == analyze_profile(cars, profile)
    IN  IF profile = None
        THEN [recommendations |-> <<>>,
              printed |-> Printed("Perfil não encontrado. Cadastre-o primeiro.", "")]
        ELSE IF recommendations = <<>>
        THEN [recommendations |-> <<>>,
              printed |-> Printed("Nenhuma carreira cadastrada para comparação.", "")]
        ELSE [recommendations |-> recommendations,
              printed |-> Printed("Recomendações:",
                                  print_recommendations(recommendations))]

(* CareerCLI._list_careers: per career its name and its requirements *)
cli_list_careers(cars) ==
    Printed("Carreiras cadastradas:",
            [i \in 1..Len(list_careers(cars)) |->
                [career |-> list_careers(cars)[i].name,
                 requirements |-> list_careers(cars)[i].required_competencies]])

(* run(): the banner, then the menu *)
Run ==
    /\ pc = "start"
    /\ pc' = "menu"
    /\ before' = profiles
    /\ call' = Call("run", <<>>)
    /\ ret' = Printed("=== Sistema Inteligente de Orientação de Carreiras ===", "")
    /\ UNCHANGED <<profiles, careers, inserted, written>>

(* option 1 *)
CreateProfileStep(name_input) ==
    LET r == cli_create_profile(profiles, name_input)
    IN  /\ pc = "menu"
        /\ profiles' = r.profiles
        /\ written' = IF Strip(name_input) = "" THEN written
                       ELSE NoteNewProfile(Lower(Strip(name_input)))
        /\ before' = profiles
        /\ call' = Call("cli_create_profile", <<name_input>>)
        /\ ret' = r.printed
        /\ UNCHANGED <<careers, pc, inserted>>

(* option 2 *)
CliAddCompetencyStep(profile_input, name_input, kind_input, score_input) ==
    LET r == cli_add_competency(profiles, profile_input, name_input, kind_input,
                                score_input)
        c == Competency(Strip(name_input), Lower(Strip(kind_input)),
                        ParseFloat(Strip(score_input)).value)
        added == /\ Strip(profile_input) # ""
                 /\ ParseFloat(Strip(score_input)).raised = ""
                 /\ c.raised = ""
    IN  /\ pc = "menu"
        /\ profiles' = r.profiles
        /\ written' = IF added
                       THEN NoteWrite(Lower(Strip(profile_input)), c.value)
                       ELSE written
        /\ before' = profiles
        /\ call' = Call("cli_add_competency",
                        <<profile_input, name_input, kind_input, score_input>>)
        /\ ret' = r.printed
        /\ UNCHANGED <<careers, pc, inserted>>

(* option 3 *)
CliAnalyzeProfileStep(name_input) ==
    /\ pc = "menu"
    /\ before' = profiles
    /\ call' = Call("cli_analyze_profile", <<name_input>>)
    /\ ret' = cli_analyze_profile(profiles, careers, name_input)
    /\ UNCHANGED <<profiles, careers, pc, inserted, written>>

(* option 4 *)
ListCareers ==
    /\ pc = "menu"
    /\ before' = profiles
    /\ call' = Call("cli_list_careers", <<>>)
    /\ ret' = cli_list_careers(careers)
    /\ UNCHANGED <<profiles, careers, pc, inserted, written>>

(* option 0 *)
Quit ==
    /\ pc = "menu"
    /\ pc' = "exit"
    /\ before' = profiles
    /\ call' = Call("quit", <<>>)
    /\ ret' = Printed("Até logo!", "")
    /\ UNCHANGED <<profiles, careers, inserted, written>>

(* any other option *)
InvalidOption ==
    /\ pc = "menu"
    /\ before' = profiles
    /\ call' = Call("invalid_option", <<>>)
    /\ ret' = Printed("Opção inválida. Tente novamente.", "")
    /\ UNCHANGED <<profiles, careers, pc, inserted, written>>

(* demo(): a second default advisor, the profile Marina built and          *)
(* registered, its analysis printed; main() then returns.                  *)
demo_profile ==
    add_competency(
        add_competency(
            add_competency(Profile("Marina"),
                           Competency("Python", "tecnica", 75000).value),
            Competency("Estatistica", "tecnica", 6 * Unit).value),
        Competency("Comunicacao", "comportamental", 65000).value)

Demo ==
    /\ pc = "start"
    /\ pc' = "exit"
    /\ careers' = build_default_advisor
    /\ profiles' = add_profile(<<>>, demo_profile)
    /\ written' = {[profile |-> "marina", key |-> "python", score |-> 75000],
                   [profile |-> "marina", key |-> "estatistica", score |-> 6 * Unit],
                   [profile |-> "marina", key |-> "comunicacao", score |-> 65000]}
    /\ before' = profiles
    /\ call' = Call("demo", <<>>)
    /\ ret' = [recommendations |-> analyze_profile(careers', demo_profile),
               printed |-> Printed("Recomendações:",
                              print_recommendations(
                                  analyze_profile(careers', demo_profile)))]
    /\ UNCHANGED inserted

(***************************************************************************)
(* SpecCLI: main() of cli.py                                               *)
(***************************************************************************)
CliProfileInputs == {"Marina", " Ana ", ""}

(* the names typed at "create profile": those, and one in other case *)
CliCreateInputs == CliProfileInputs \cup {"ANA"}

CliLookupInputs == {"marina", "Ana", "Bo"}

(* (name, kind, score) as typed *)
CliCompetencyInputs ==
    {<<"Python", "tecnica", "7.5">>,
     <<"Estatistica Aplicada", " Tecnica ", " 6 ">>,
     <<"Comunicacao", "Comportamental", "6.5">>,
     <<"Python", "technical", "7.5">>,
     <<"Python", "tecnica", "10.0001">>,
     <<"Python", "tecnica", "-1">>,
     <<"Python", "tecnica", "abc">>}

InitCLI ==
    /\ profiles = <<>>
    /\ careers = build_default_advisor
    /\ pc = "start"
    /\ call = Call("build_default_advisor", <<>>)
    /\ ret = None
    /\ before = <<>>
    /\ inserted = [i \in 1..Len(careers_data) |-> careers_data[i][1]]
    /\ written = {}

CreateProfile == \E name_input \in CliCreateInputs : CreateProfileStep(name_input)

CliAddCompetency ==
    \E profile_input \in CliProfileInputs, c \in CliCompetencyInputs :
        CliAddCompetencyStep(profile_input, c[1], c[2], c[3])

CliAnalyzeProfile ==
    \E name_input \in CliLookupInputs : CliAnalyzeProfileStep(name_input)

NextCLI ==
    \/ Run
    \/ Demo
    \/ CreateProfile
    \/ CliAddCompetency
    \/ CliAnalyzeProfile
    \/ ListCareers
    \/ InvalidOption
    \/ Quit

SpecCLI == InitCLI /\ [][NextCLI]_vars

(***************************************************************************)
(* Claims about the scoring engine, checked under Spec.                    *)
(***************************************************************************)
Analysed == call.op = "analyze_profile"

Requirements(rec) == rec.career.required_competencies

(* every requirement of rec's career is met by rec's profile *)
AllMet(rec) ==
    \A k \in 1..Len(Requirements(rec)) :
        get_score(rec.profile, Requirements(rec)[k].key)
            >= Requirements(rec)[k].value[2]

SomeUnmet(rec) == ~AllMet(rec)

RECURSIVE TotalRequired(_, _)
TotalRequired(rc, k) ==
    IF k = 0 THEN 0 ELSE TotalRequired(rc, k - 1) + rc[k].value[2]

(* the summed gaps of the unmet requirements *)
RECURSIVE TotalShortfall(_, _, _)
TotalShortfall(profile, rc, k) ==
    IF k = 0 THEN 0
    ELSE TotalShortfall(profile, rc, k - 1)
         + (IF get_score(profile, rc[k].key) < rc[k].value[2]
            THEN rc[k].value[2] - get_score(profile, rc[k].key) ELSE 0)

(* C1, as stated: every reported match_percentage lies in [0, 100] and is  *)
(* exactly 100 if and only if every requirement of the career is met.      *)
C1_HundredIffAllMet ==
    Analysed =>
        \A i \in 1..Len(ret) :
            /\ 0 <= ret[i].match_percentage
            /\ ret[i].match_percentage <= 100 * 100
            /\ (ret[i].match_percentage = 100 * 100) <=> AllMet(ret[i])

(* C1, amended: match_percentage lies in [0, 100]; a career with no        *)
(* requirement reports 0; a career with requirements reports 100 whenever  *)
(* all of them are met; and a reported 100 means the career has            *)
(* requirements and the summed shortfall is at most 0.005% of the summed   *)
(* required scores (the unrounded percentage is at least 99.995).          *)
C1_MatchRange ==
    Analysed =>
        \A i \in 1..Len(ret) :
            LET rc == Requirements(ret[i])
                pct == ret[i].match_percentage
            IN  /\ 0 <= pct /\ pct <= 100 * 100
                /\ Len(rc) = 0 => pct = 0
                /\ (Len(rc) > 0 /\ AllMet(ret[i])) => pct = 100 * 100
                /\ pct = 100 * 100 =>
                       /\ Len(rc) > 0
                       /\ 20000 * TotalShortfall(ret[i].profile, rc, Len(rc))
                              <= TotalRequired(rc, Len(rc))

(* C1 witness: an analysis reporting 100.00 for a career with an unmet     *)
(* requirement, 100.00 for a career fully met (with a surplus), and 0 for  *)
(* a career without requirements.                                          *)
C1_Witness ==
    /\ Analysed
    /\ \E i \in 1..Len(ret) :
           ret[i].match_percentage = 100 * 100 /\ SomeUnmet(ret[i])
    /\ \E i \in 1..Len(ret) :
           /\ Len(Requirements(ret[i])) = 0
           /\ ret[i].match_percentage = 0

(* C3: the recommendations are sorted by match_percentage, non-increasing, *)
(* and recommendations with equal match_percentage are in the order in     *)
(* which their careers' keys were first given to add_career.               *)
FirstInserted(name) ==
    CHOOSE n \in 1..Len(inserted) : Lower(inserted[n]) = Lower(name)

C3_Ranking ==
    Analysed =>
        \A i, j \in 1..Len(ret) :
            i < j =>
                /\ ret[i].match_percentage >= ret[j].match_percentage
                /\ ret[i].match_percentage = ret[j].match_percentage =>
                       FirstInserted(ret[i].career.name)
                           < FirstInserted(ret[j].career.name)

(* C3 witness: three recommendations, two of them tied above the third,    *)
(* the first of the tied ones for a career re-added under another spelling *)
(* of its name.                                                            *)
C3_Witness ==
    /\ Analysed
    /\ Len(ret) = 3
    /\ ret[1].match_percentage = ret[2].match_percentage
    /\ ret[2].match_percentage > ret[3].match_percentage
    /\ ret[1].career.name # inserted[FirstInserted(ret[1].career.name)]
    /\ FirstInserted(ret[3].career.name) < FirstInserted(ret[2].career.name)

(* C8: analyze_profile returns exactly one Recommendation per career of    *)
(* the registry, none when the registry has no career.                     *)
C8_OnePerCareer ==
    Analysed =>
        /\ Len(ret) = Len(careers)
        /\ \A k \in 1..Len(careers) :
               Cardinality({i \in 1..Len(ret) : ret[i].career = careers[k].value}) = 1

(* C8 witness: three careers analysed, with a 0%, a 100% and a match in    *)
(* between.                                                                *)
C8_Witness ==
    /\ Analysed
    /\ Len(careers) = 3
    /\ \E i \in 1..Len(ret) : ret[i].match_percentage = 0
    /\ \E i \in 1..Len(ret) : ret[i].match_percentage = 100 * 100
    /\ \E i \in 1..Len(ret) :
           ret[i].match_percentage > 0 /\ ret[i].match_percentage < 100 * 100

(* every requirement of rec's career is met with no surplus *)
ExactlyMet(rec) ==
    \A k \in 1..Len(Requirements(rec)) :
        get_score(rec.profile, Requirements(rec)[k].key)
            = Requirements(rec)[k].value[2]

(* C9: suggest_improvements returns one advice per entry of missing, in    *)
(* missing's order, or the single "satisfied" message when missing is      *)
(* empty; and analyze_profile leaves missing empty for a career whose      *)
(* requirements are all met exactly.                                       *)
C9_Suggestions ==
    /\ call.op = "suggest_improvements" =>
           LET m == call.args[1].missing_competencies
           IN  IF Len(m) = 0 THEN ret = <<Satisfied>>
               ELSE /\ Len(ret) = Len(m)
                    /\ \A i \in 1..Len(m) :
                           /\ ret[i] # Satisfied
                           /\ ret[i].comp_name = m[i].key
    /\ Analysed =>
           \A i \in 1..Len(ret) :
               ExactlyMet(ret[i]) => ret[i].missing_competencies = <<>>

(* C9 witness: suggestions asked for a career whose one requirement is met *)
(* exactly, and answered with the single message.                          *)
C9_Witness ==
    /\ call.op = "suggest_improvements"
    /\ Len(Requirements(call.args[1])) = 1
    /\ ExactlyMet(call.args[1])
    /\ ret = <<Satisfied>>

(* C4: an add_competency_to_profile call that raises the score get_score   *)
(* reports for one name, and changes it for no other name, lowers the      *)
(* match_percentage of no career requiring that name and leaves that of    *)
(* every other career as it was.                                           *)
ProfileBefore(profile_name) ==
    IF DictHas(before, Lower(profile_name))
    THEN DictGet(before, Lower(profile_name)) ELSE Profile(profile_name)

StoredKeys(profile) ==
    {profile.technical_skills[i].key : i \in 1..Len(profile.technical_skills)}
        \cup {profile.behavioral_skills[i].key :
                  i \in 1..Len(profile.behavioral_skills)}

(* p2 is p1 with the score of name raised and no other score changed *)
RaisedOnly(p1, p2, name) ==
    /\ get_score(p2, name) > get_score(p1, name)
    /\ \A k \in StoredKeys(p1) \cup StoredKeys(p2) :
           k # Lower(name) => get_score(p2, k) = get_score(p1, k)

Requires(career, name) ==
    \E k \in 1..Len(career.required_competencies) :
        Lower(career.required_competencies[k].key) = Lower(name)

(* the match_percentage analyze_profile reports for the k-th career *)
MatchFor(profile, k) ==
    LET recs == analyze_profile(careers, profile)
        i == CHOOSE i \in 1..Len(recs) : recs[i].career = careers[k].value
    IN  recs[i].match_percentage

C4_Monotone ==
    call.op = "add_competency_to_profile" =>
        LET p1 == ProfileBefore(call.args[1])
            p2 == get_profile(profiles, call.args[1])
            name == call.args[2].name
        IN  RaisedOnly(p1, p2, name) =>
                \A k \in 1..Len(careers) :
                    IF Requires(careers[k].value, name)
                    THEN MatchFor(p2, k) >= MatchFor(p1, k)
                    ELSE MatchFor(p2, k) = MatchFor(p1, k)

(* C4 witness: a competency was added that raised one score; a career      *)
(* requiring it gained, and a career not requiring it has a match that is  *)
(* neither 0 nor 100.                                                      *)
C4_Witness ==
    /\ call.op = "add_competency_to_profile"
    /\ RaisedOnly(ProfileBefore(call.args[1]),
                  get_profile(profiles, call.args[1]), call.args[2].name)
    /\ \E k \in 1..Len(careers) :
           /\ Requires(careers[k].value, call.args[2].name)
           /\ MatchFor(get_profile(profiles, call.args[1]), k)
                  > MatchFor(ProfileBefore(call.args[1]), k)
    /\ \E k \in 1..Len(careers) :
           /\ ~Requires(careers[k].value, call.args[2].name)
           /\ MatchFor(get_profile(profiles, call.args[1]), k) > 0

(***************************************************************************)
(* Claims about Competency and Profile.                                    *)
(***************************************************************************)
(* the spellings of the two kinds *)
TechnicalSpellings == {"tecnica", "Tecnica", "TECNICA"}

BehavioralSpellings == {"comportamental", "Comportamental"}

LastWritten(profile_name, name) ==
    LET ws == {w \in written :
                 w.profile = Lower(profile_name) /\ w.key = Lower(name)}
    IN  IF ws = {} THEN 0 ELSE (CHOOSE w \in ws : TRUE).score

(* C2: get_score(n) returns the score of the competency most recently      *)
(* added to the profile under a name equal to n ignoring case, whatever    *)
(* the kinds, and 0 when there was none.                                   *)
C2_LastWriteWins ==
    call.op = "get_score" => ret = LastWritten(call.args[1], call.args[2])

(* p2 holds every competency of p1 except the one c replaced *)
OthersKept(p1, p2, c) ==
    /\ p2.name = p1.name
    /\ \A i \in 1..Len(p1.technical_skills) :
           (c.kind # "tecnica" \/ p1.technical_skills[i].key # Lower(c.name))
               => /\ i <= Len(p2.technical_skills)
                  /\ p2.technical_skills[i] = p1.technical_skills[i]
    /\ \A i \in 1..Len(p1.behavioral_skills) :
           (c.kind # "comportamental"
                \/ p1.behavioral_skills[i].key # Lower(c.name))
               => /\ i <= Len(p2.behavioral_skills)
                  /\ p2.behavioral_skills[i] = p1.behavioral_skills[i]

(* what C7 says of the registry: the profile is looked up or created,      *)
(* receives c, keeps what it had, and is the profile returned              *)
LookedUpOrCreated ==
    LET profile_name == call.args[1]
        c == call.args[2]
        key == Lower(profile_name)
        after == get_profile(profiles, profile_name)
    IN  /\ after # None
        /\ ret = after
        /\ c \in {list_competencies(after)[i] :
                      i \in 1..Len(list_competencies(after))}
        /\ IF DictHas(before, key)
           THEN /\ DictKeys(profiles) = DictKeys(before)
                /\ OthersKept(DictGet(before, key), after, c)
           ELSE /\ DictKeys(profiles) = Append(DictKeys(before), key)
                /\ after.name = profile_name
                /\ list_competencies(after) = <<c>>

(* C7: add_competency_to_profile(profile_name, c) adds c to the profile    *)
(* registered under profile_name ignoring case, keeping its other          *)
(* competencies, or to a new empty profile registered under that name;     *)
(* the profile returned is the registered one and its get_score(c.name)    *)
(* is c.score.                                                             *)
C7_AddToProfile ==
    call.op = "add_competency_to_profile" =>
        /\ LookedUpOrCreated
        /\ get_score(ret, call.args[2].name) = call.args[2].score

(***************************************************************************)
(* Claims about the shell (SpecCLI)                                        *)
(***************************************************************************)
(* the kinds, as typed, that _add_competency's Competency accepts *)
AcceptedKindInputs == {"tecnica", " Tecnica ", "Comportamental"}

(* the scores, as typed, that are numbers in [0, 10] *)
AcceptedScoreInputs == {"0", "6", " 6 ", "6.5", "7.5", "10"}

(* an "add competency" given an invalid kind, a score outside [0, 10] or   *)
(* a score that is not a number                                            *)
InvalidAdd ==
    /\ call.op = "cli_add_competency"
    /\ \/ call.args[3] \notin AcceptedKindInputs
       \/ call.args[4] \notin AcceptedScoreInputs

(* C6: an "add competency" given an invalid kind, a score outside [0, 10]  *)
(* or an unparsable score leaves the registry exactly as it was (no        *)
(* profile created, no competency added, the careers untouched), and the   *)
(* shell is back at its menu; when a profile name was given, what is       *)
(* printed is the validation error.                                        *)
C6_InvalidAddAborts ==
    InvalidAdd =>
        /\ profiles = before
        /\ careers = build_default_advisor
        /\ pc = "menu"
        /\ call.args[1] # "" =>
               /\ ret.text = "Erro ao cadastrar competência: {}"
               /\ ret.value # ""

(* C6 witness: with a profile holding a competency registered, an add      *)
(* with an invalid kind names a profile that is not registered, and none   *)
(* is created.                                                             *)
C6_Witness ==
    /\ call = Call("cli_add_competency",
                   <<" Ana ", "Python", "technical", "7.5">>)
    /\ ret = Printed("Erro ao cadastrar competência: {}", KindError)
    /\ ~DictHas(profiles, "ana")
    /\ DictHas(profiles, "marina")
    /\ get_score(DictGet(profiles, "marina"), "python") = 75000
    /\ pc = "menu"

(* the profile Marina holds exactly python 7.5, estatistica aplicada 6 and *)
(* comunicacao 6.5, and has just been analysed                             *)
MarinaAnalysed ==
    /\ call.op = "cli_analyze_profile"
    /\ Lower(Strip(call.args[1])) = "marina"
    /\ DictHas(profiles, "marina")
    /\ LET marina == DictGet(profiles, "marina")
           held == list_competencies(marina)
       IN  /\ marina.name = "Marina"
           /\ {<<Lower(held[i].name), held[i].score>> : i \in 1..Len(held)}
                  = {<<"python", 75000>>,
                     <<"estatistica aplicada", 6 * Unit>>,
                     <<"comunicacao", 65000>>}

(* the recommendation for Cientista de Dados among those returned *)
DataScientist ==
    ret.recommendations[CHOOSE i \in 1..Len(ret.recommendations) :
        ret.recommendations[i].career.name = "Cientista de Dados"]

(* the scores Cientista de Dados requires, per competency *)
DataScientistRequires ==
    {<<"python", 9 * Unit>>, <<"estatistica aplicada", 8 * Unit>>,
     <<"machine learning", 9 * Unit>>, <<"data visualization", 7 * Unit>>,
     <<"pensamento critico", 8 * Unit>>, <<"comunicacao", 8 * Unit>>,
     <<"orientacao a dados", 7 * Unit>>}

RequiredScores(rec) ==
    {<<Requirements(rec)[k].key, Requirements(rec)[k].value[2]>> :
         k \in 1..Len(Requirements(rec))}

(* total and achieved of a recommendation, from its career and profile *)
TotalOf(rec) == TotalRequired(Requirements(rec), Len(Requirements(rec)))

AchievedOf(rec) ==
    TotalOf(rec)
        - TotalShortfall(rec.profile, Requirements(rec), Len(Requirements(rec)))

(* C10, as stated: for Marina against Cientista de Dados the requirements  *)
(* total 58, achieved is 20 and match_percentage is 34.48.                 *)
C10_MarinaAsStated ==
    MarinaAnalysed =>
        /\ RequiredScores(DataScientist) = DataScientistRequires
        /\ TotalOf(DataScientist) = 58 * Unit
        /\ AchievedOf(DataScientist) = 20 * Unit
        /\ DataScientist.match_percentage = 3448

(* C10, amended: for Marina against Cientista de Dados, whose seven        *)
(* requirements are python 9, estatistica aplicada 8, machine learning 9,  *)
(* data visualization 7, pensamento critico 8, comunicacao 8 and           *)
(* orientacao a dados 7, the total is 56, achieved is 20 and               *)
(* match_percentage is round(20/56*100, 2) = 35.71.                        *)
C10_MarinaScenario ==
    MarinaAnalysed =>
        /\ RequiredScores(DataScientist) = DataScientistRequires
        /\ Len(Requirements(DataScientist)) = 7
        /\ TotalOf(DataScientist) = 56 * Unit
        /\ AchievedOf(DataScientist) = 20 * Unit
        /\ DataScientist.match_percentage = 3571

(* C10 witness: Marina, entered with the three competencies, has been      *)
(* analysed and Cientista de Dados is among the recommendations at 35.71.  *)
C10_Witness ==
    /\ MarinaAnalysed
    /\ Len(ret.recommendations) = Len(careers)
    /\ DataScientist.profile = DictGet(profiles, "marina")
    /\ DataScientist.match_percentage = 3571

(***************************************************************************)
(* Further claims about the engine (Spec)                                  *)
(***************************************************************************)
(* the requirement names of rec's career that rec's profile scores         *)
(* strictly below                                                          *)
UnmetNames(rec) ==
    {Requirements(rec)[k].key : k \in
        {k \in 1..Len(Requirements(rec)) :
            get_score(rec.profile, Requirements(rec)[k].key)
                < Requirements(rec)[k].value[2]}}

(* C11: in every Recommendation of analyze_profile the keys of missing are *)
(* exactly the requirement names the profile scores strictly below, once   *)
(* each, and each maps to required_score minus the profile's score; the    *)
(* score is the one get_score finds by name, whatever kind the requirement *)
(* is tagged with, and each entry depends on its own requirement only.     *)
C11_Missing ==
    Analysed =>
        \A i \in 1..Len(ret) :
            LET m == ret[i].missing_competencies
                rc == Requirements(ret[i])
            IN  /\ {m[j].key : j \in 1..Len(m)} = UnmetNames(ret[i])
                /\ Cardinality(UnmetNames(ret[i])) = Len(m)
                /\ \A j \in 1..Len(m) :
                       m[j].value = DictGet(rc, m[j].key)[2]
                                      - get_score(ret[i].profile, m[j].key)
                /\ \A k \in 1..Len(rc) :
                       DictHas(m, rc[k].key)
                           <=> get_score(ret[i].profile, rc[k].key) < rc[k].value[2]

(* C11 witness: python is held only as a behavioral competency, at 10; a   *)
(* career requires sql (tagged behavioral, 8) and python (tagged           *)
(* technical, 9); python is not missing although the kinds differ, and     *)
(* its surplus leaves sql missing by the full 8.                           *)
C11_Witness ==
    /\ Analysed
    /\ \E i \in 1..Len(ret) :
           /\ Requirements(ret[i]) = ReqBoth
           /\ ~DictHas(ret[i].profile.technical_skills, "python")
           /\ DictHas(ret[i].profile.behavioral_skills, "python")
           /\ get_score(ret[i].profile, "python") = 10 * Unit
           /\ ret[i].missing_competencies
                  = <<[key |-> "sql", value |-> 8 * Unit]>>

(***************************************************************************)
(* Further claims about profiles (SpecProfile)                             *)
(***************************************************************************)
(* every entry of bucket is filed under its lowercased name, is of the     *)
(* given kind and has a score in [0, 10]                                   *)
BucketSound(bucket, kind) ==
    \A i \in 1..Len(bucket) :
        /\ bucket[i].key = Lower(bucket[i].value.name)
        /\ bucket[i].value.kind = kind
        /\ 0 <= bucket[i].value.score
        /\ bucket[i].value.score <= 10 * Unit

(* C12: in every state reached through Competency construction,           *)
(* Profile.add_competency, add_profile and add_competency_to_profile,      *)
(* every stored competency sits in the bucket of its kind (tecnica in      *)
(* technical_skills, comportamental in behavioral_skills), under the key   *)
(* equal to its lowercased name, with 0 <= score <= 10.                    *)
C12_StoredCompetencies ==
    \A p \in 1..Len(profiles) :
        /\ BucketSound(profiles[p].value.technical_skills, "tecnica")
        /\ BucketSound(profiles[p].value.behavioral_skills, "comportamental")

(* C12 witness: a profile holds "Python" as technical and "python", given  *)
(* with the kind spelt "Comportamental", as behavioral, both under the key *)
(* python.                                                                 *)
C12_Witness ==
    /\ call.op \in {"add_competency", "add_competency_to_profile"}
    /\ DictHas(profiles, "ana")
    /\ DictHas(DictGet(profiles, "ana").technical_skills, "python")
    /\ DictGet(DictGet(profiles, "ana").technical_skills, "python").name = "Python"
    /\ DictHas(DictGet(profiles, "ana").behavioral_skills, "python")
    /\ DictGet(DictGet(profiles, "ana").behavioral_skills, "python")
           = [name |-> "python", kind |-> "comportamental", score |-> 8 * Unit]

(***************************************************************************)
(* Claims about the analysis as a computation (Spec)                       *)
(***************************************************************************)
(* the missing map of rec as its career and profile determine it: the      *)
(* unmet requirements in the requirements' order, each with its shortfall  *)
ExpectedMissing(rec) ==
    LET Unmet(r) == get_score(rec.profile, r.key) < r.value[2]
        unmet == SelectSeq(Requirements(rec), Unmet)
    IN  [j \in 1..Len(unmet) |->
            [key |-> unmet[j].key,
             value |-> unmet[j].value[2] - get_score(rec.profile, unmet[j].key)]]

(* the match of rec as its career and profile determine it *)
ExpectedMatch(rec) ==
    IF TotalOf(rec) = 0 THEN 0
    ELSE RoundHalfEven(AchievedOf(rec) * 100 * 100, TotalOf(rec))

(* the result of the analysis just made is the one the registry's careers  *)
(* and the profile's competencies, as they now are, determine: one         *)
(* recommendation per registered career, for the profile as registered,    *)
(* with the match and missing map computed from them, ranked by match and  *)
(* then by the career's place in the registry                              *)
ReflectsRegistry ==
    Analysed =>
        LET p == get_profile(profiles, call.args[1])
            Place(rec) == DictIndex(careers, Lower(rec.career.name))
        IN  /\ profiles = before
            /\ Len(ret) = Len(careers)
            /\ \A i \in 1..Len(ret) :
                   /\ ret[i].profile = p
                   /\ DictHas(careers, Lower(ret[i].career.name))
                   /\ DictGet(careers, Lower(ret[i].career.name)) = ret[i].career
                   /\ ret[i].match_percentage = ExpectedMatch(ret[i])
                   /\ ret[i].missing_competencies = ExpectedMissing(ret[i])
            /\ \A i, j \in 1..Len(ret) :
                   i < j =>
                       \/ ret[i].match_percentage > ret[j].match_percentage
                       \/ /\ ret[i].match_percentage = ret[j].match_percentage
                          /\ Place(ret[i]) < Place(ret[j])

(* C13: analyze_profile changes nothing (the step leaves profiles and      *)
(* careers, and so the analysed profile's competencies, as they were) and  *)
(* what it returns is determined by the registry as it is at the call:     *)
(* two calls with no mutation in between return equal sequences, and a     *)
(* call after a competency or a career was added reflects the addition.    *)
C13_AnalysisIsPure ==
    /\ []ReflectsRegistry
    /\ [][call'.op = "analyze_profile" =>
              (profiles' = profiles /\ careers' = careers)]_vars

(* C13 witness: after a competency was added to the profile and careers    *)
(* to the registry, an analysis returns a recommendation with a partial    *)
(* match and a missing entry, and the registry is as it was before the     *)
(* call.                                                                   *)
C13_Witness ==
    /\ Analysed
    /\ profiles = before
    /\ Len(careers) >= 2
    /\ Len(ret) = Len(careers)
    /\ Cardinality({w \in written : w.profile = Lower(call.args[1])}) >= 1
    /\ \E i \in 1..Len(ret) :
           /\ ret[i].match_percentage > 0
           /\ ret[i].match_percentage < 100 * 100
           /\ Len(ret[i].missing_competencies) >= 1
           /\ ret[i].profile = DictGet(profiles, Lower(call.args[1]))

(***************************************************************************)
(* Claims about re-registration (SpecCLI)                                  *)
(***************************************************************************)
(* C14: "create profile" for a name, also one already registered in any    *)
(* case, registers a new profile in place of the stored one: afterwards    *)
(* get_profile(name) is a profile of that name with no competencies, every *)
(* score the replaced profile held reads back as 0, and the other profiles *)
(* are as they were.                                                       *)
C14_CreateReplaces ==
    (call.op = "cli_create_profile" /\ Strip(call.args[1]) # "") =>
        LET name == Strip(call.args[1])
            key == Lower(name)
            p == get_profile(profiles, name)
        IN  /\ p = [name |-> name, technical_skills |-> <<>>,
                    behavioral_skills |-> <<>>]
            /\ list_competencies(p) = <<>>
            /\ DictHas(before, key) =>
                   /\ \A k \in StoredKeys(DictGet(before, key)) : get_score(p, k) = 0
                   /\ DictKeys(profiles) = DictKeys(before)
            /\ \A i \in 1..Len(before) :
                   before[i].key # key => profiles[i] = before[i]

(* C14 witness: the profile Ana held python at 7.5; "create profile" was   *)
(* repeated as ANA, and python now reads back as 0 from the profile        *)
(* registered under that name.                                             *)
C14_Witness ==
    /\ call = Call("cli_create_profile", <<"ANA">>)
    /\ DictHas(before, "ana")
    /\ DictGet(before, "ana").name = "Ana"
    /\ get_score(DictGet(before, "ana"), "python") = 75000
    /\ get_profile(profiles, "Ana").name = "ANA"
    /\ get_score(get_profile(profiles, "Ana"), "Python") = 0

====
